---------------------------- MODULE Spec2Model ----------------------------
(***************************************************************************)
(* The block-party orchestration store (the zustand store created by       *)
(* useBlockStore): blocks, configs, editingBlockId and blockCounts, with   *)
(* every store operation as one action.  saveBlock is the only async       *)
(* operation: it is split at its await of config.onSave, and the calls     *)
(* suspended there are kept in the bag `saves` with the block they         *)
(* captured before the await.                                              *)
(***************************************************************************)
EXTENDS Integers, FiniteSets, Sequences, Bags, TLC

(***************************************************************************)
(* Bounds of the model.                                                    *)
(***************************************************************************)
\* how many ids generateBlockId hands out
MaxIds == 2
\* how far Date.now() advances
MaxClock == 1
\* how many saveBlock calls may be suspended in onSave at once
MaxSaves == 1
\* the largest maxBlocks a registered configuration carries
MaxLimit == 2

\* how many ids generateBlockId hands out in a reordering scenario
MaxMoveIds == 3

VARIABLES
  blocks,          \* Map<string, Block>: a function from the ids present to blocks
  configs,         \* Map<string, BlockConfig>: a function from registered types
  editingBlockId,  \* string | null
  blockCounts,     \* Map<string, number>
  blockIdCounter,  \* the module-level id counter
  now,             \* the value Date.now() returns
  saves,           \* bag of saveBlock calls suspended at `await config.onSave(block)`
  ret,             \* how the last call ended: its return value, a throw, or its promise's state
  timers,          \* BlockManager: ids whose setTimeout(enableBlockEdit) has not fired yet
  savedData        \* history: the data each block held at its last successful save from the UI

vars == <<blocks, configs, editingBlockId, blockCounts, blockIdCounter, now, saves, ret,
          timers, savedData>>

(***************************************************************************)
(* Values.                                                                 *)
(***************************************************************************)
\* editingBlockId: null
NoId == 0
\* savedAt?: absent
NoTime == -1
\* maxBlocks?: absent (the code tests it by truthiness)
NoLimit == 0

Types == {"text", "image"}

\* validate: the predicate a configuration may carry; it rejects the payload "bad"
Validate(data) == data # "bad"

\* a configuration, as far as the store reads it: type, maxBlocks?, createDefault,
\* validate? and onSave?
Config(type, maxBlocks, default, hasValidate, hasOnSave) ==
  [type |-> type, maxBlocks |-> maxBlocks, default |-> default,
   hasValidate |-> hasValidate, hasOnSave |-> hasOnSave]

\* the configurations callers register: text is limited and validated and saves
\* through onSave, image is unlimited and carries neither validator nor onSave
TextConfig == Config("text", MaxLimit, "d0", TRUE, TRUE)
ImageConfig == Config("image", NoLimit, "d0", FALSE, FALSE)
AllConfigs == {TextConfig, ImageConfig}

\* configurations with no onSave: saveBlock never suspends
SyncConfigs ==
  {Config("text", n, "d0", TRUE, FALSE) : n \in {1, MaxLimit}} \cup {ImageConfig}

\* configurations for a store whose configuration is registered once
FixedConfigs == {Config("text", 1, "d0", TRUE, TRUE), Config("text", MaxLimit, "d0", FALSE, FALSE)}

(***************************************************************************)
(* Helpers over the Maps.                                                  *)
(***************************************************************************)
\* Map.get(type) || 0
CountOf(counts, type) == IF type \in DOMAIN counts THEN counts[type] ELSE 0

\* Map.set(key, value) on a copy
MapSet(m, key, value) == [k \in DOMAIN m \cup {key} |-> IF k = key THEN value ELSE m[k]]

\* Map.delete(key) on a copy
MapDelete(m, key) == [k \in DOMAIN m \ {key} |-> m[k]]

\* blocks.reduce((max, block) => Math.max(max, block.order), -1)
MaxOrder(bs) ==
  LET orders == {bs[i].order : i \in DOMAIN bs} \cup {-1}
  IN  CHOOSE max \in orders : \A order \in orders : order <= max

\* the blocks of a type that are present
BlocksOfType(bs, type) == {i \in DOMAIN bs : bs[i].type = type}

(***************************************************************************)
(* Initial state: the store as created.                                    *)
(***************************************************************************)
Init ==
  /\ blocks = << >>
  /\ configs = << >>
  /\ editingBlockId = NoId
  /\ blockCounts = << >>
  /\ blockIdCounter = 0
  /\ now = 0
  /\ saves = EmptyBag
  /\ ret = "none"
  /\ timers = {}
  /\ savedData = << >>

(***************************************************************************)
(* Date.now() advances between calls.                                      *)
(***************************************************************************)
Tick ==
  /\ now' = now + 1
  /\ UNCHANGED <<blocks, configs, editingBlockId, blockCounts, blockIdCounter, saves, ret>>

(***************************************************************************)
(* Config management.                                                      *)
(***************************************************************************)
registerConfig(config) ==
  /\ ret' = "undefined"
  /\ configs' = MapSet(configs, config.type, config)
  /\ UNCHANGED <<blocks, editingBlockId, blockCounts, blockIdCounter, now, saves>>

unregisterConfig(type) ==
  /\ ret' = "undefined"
  /\ configs' = MapDelete(configs, type)
  /\ UNCHANGED <<blocks, editingBlockId, blockCounts, blockIdCounter, now, saves>>

(***************************************************************************)
(* Block CRUD operations.                                                  *)
(***************************************************************************)
\* mutant: a new block is numbered after the blocks of its own type only
NewBlockPerTypeOrder(type, config) ==
  [ type |-> type,
    data |-> config.default,
    order |-> MaxOrder([i \in BlocksOfType(blocks, type) |-> blocks[i]]) + 1,
    state |-> "empty",
    isEditing |-> FALSE,
    createdAt |-> now,
    updatedAt |-> now,
    savedAt |-> NoTime ]

\* mutant: a new block is stamped as saved
NewBlockSaved(type, config) ==
  [ type |-> type,
    data |-> config.default,
    order |-> MaxOrder(blocks) + 1,
    state |-> "empty",
    isEditing |-> FALSE,
    createdAt |-> now,
    updatedAt |-> now,
    savedAt |-> now ]

\* the block addBlock builds
NewBlock(type, config) ==
  [ type |-> type,
    data |-> config.default,
    order |-> MaxOrder(blocks) + 1,
    state |-> "empty",
    isEditing |-> FALSE,
    createdAt |-> now,
    updatedAt |-> now,
    savedAt |-> NoTime ]

\* mutant: the limit check off by one
AtLimitOffByOne(type) ==
  /\ configs[type].maxBlocks # NoLimit
  /\ CountOf(blockCounts, type) > configs[type].maxBlocks

\* the limit check: config.maxBlocks && currentCount >= config.maxBlocks
AtLimit(type) ==
  /\ configs[type].maxBlocks # NoLimit
  /\ CountOf(blockCounts, type) >= configs[type].maxBlocks

\* mutant: addBlock does not validate the default payload
DefaultRejectedNever(type) == FALSE

\* the default payload check: config.validate && !config.validate(newBlock.data)
DefaultRejected(type) ==
  configs[type].hasValidate /\ ~Validate(configs[type].default)

\* mutant: a missing configuration is reported as null, like a reached limit
AddBlockNoConfigReturnsNull(type) ==
  /\ type \notin DOMAIN configs
  /\ ret' = "null"
  /\ UNCHANGED <<blocks, configs, editingBlockId, blockCounts, blockIdCounter, now, saves>>

\* addBlock throws: no configuration for the type
AddBlockNoConfig(type) ==
  /\ type \notin DOMAIN configs
  /\ ret' = "throw: Config not found"
  /\ UNCHANGED <<blocks, configs, editingBlockId, blockCounts, blockIdCounter, now, saves>>

\* addBlock returns null: the limit is reached
AddBlockAtLimit(type) ==
  /\ type \in DOMAIN configs
  /\ AtLimit(type)
  /\ ret' = "null"
  /\ UNCHANGED <<blocks, configs, editingBlockId, blockCounts, blockIdCounter, now, saves>>

\* addBlock throws: the validator rejects the default payload (the id is spent)
AddBlockInvalidDefault(type) ==
  /\ type \in DOMAIN configs
  /\ ~AtLimit(type)
  /\ DefaultRejected(type)
  /\ ret' = "throw: Invalid default data"
  /\ blockIdCounter' = blockIdCounter + 1
  /\ UNCHANGED <<blocks, configs, editingBlockId, blockCounts, now, saves>>

\* addBlock returns the new id
AddBlockOk(type) ==
  /\ type \in DOMAIN configs
  /\ ~AtLimit(type)
  /\ ~DefaultRejected(type)
  /\ ret' = "id"
  /\ blockIdCounter' = blockIdCounter + 1
  /\ blocks' = MapSet(blocks, blockIdCounter + 1, NewBlock(type, configs[type]))
  /\ blockCounts' = MapSet(blockCounts, type, CountOf(blockCounts, type) + 1)
  /\ UNCHANGED <<configs, editingBlockId, now, saves>>

addBlock(type) ==
  \/ AddBlockNoConfig(type)
  \/ AddBlockAtLimit(type)
  \/ AddBlockInvalidDefault(type)
  \/ AddBlockOk(type)

\* mutant: removeBlock forgets the counter
removeBlockKeepsCount(id) ==
  /\ ret' = "undefined"
  /\ IF id \notin DOMAIN blocks
       THEN UNCHANGED <<blocks, editingBlockId>>
       ELSE /\ blocks' = MapDelete(blocks, id)
            /\ editingBlockId' = IF editingBlockId = id THEN NoId ELSE editingBlockId
  /\ UNCHANGED <<configs, blockCounts, blockIdCounter, now, saves>>

\* mutant: removeBlock leaves editingBlockId pointing at the removed block
removeBlockKeepsPointer(id) ==
  /\ ret' = "undefined"
  /\ IF id \notin DOMAIN blocks
       THEN UNCHANGED <<blocks, blockCounts>>
       ELSE /\ blocks' = MapDelete(blocks, id)
            /\ blockCounts' =
                 IF CountOf(blockCounts, blocks[id].type) > 0
                   THEN MapSet(blockCounts, blocks[id].type,
                               CountOf(blockCounts, blocks[id].type) - 1)
                   ELSE blockCounts
  /\ UNCHANGED <<configs, editingBlockId, blockIdCounter, now, saves>>

removeBlock(id) ==
  /\ ret' = "undefined"
  /\ IF id \notin DOMAIN blocks
       THEN UNCHANGED <<blocks, blockCounts, editingBlockId>>
       ELSE /\ blocks' = MapDelete(blocks, id)
            /\ blockCounts' =
                 IF CountOf(blockCounts, blocks[id].type) > 0
                   THEN MapSet(blockCounts, blocks[id].type,
                               CountOf(blockCounts, blocks[id].type) - 1)
                   ELSE blockCounts
            /\ editingBlockId' = IF editingBlockId = id THEN NoId ELSE editingBlockId
  /\ UNCHANGED <<configs, blockIdCounter, now, saves>>

\* mutant: a block whose payload is set back to the default counts as empty again
updateBlockDataEmptyOnDefault(id, data) ==
  /\ ret' = "undefined"
  /\ IF id \notin DOMAIN blocks
       THEN UNCHANGED blocks
       ELSE blocks' = MapSet(blocks, id,
                        [blocks[id] EXCEPT !.data = data,
                                           !.state = IF data = "d0" THEN "empty" ELSE "dirty",
                                           !.updatedAt = now])
  /\ UNCHANGED <<configs, editingBlockId, blockCounts, blockIdCounter, now, saves>>

\* mutant: updateBlockData runs the validator and drops a payload it rejects
updateBlockDataValidated(id, data) ==
  /\ ret' = "undefined"
  /\ IF id \notin DOMAIN blocks
         \/ (blocks[id].type \in DOMAIN configs
               /\ configs[blocks[id].type].hasValidate /\ ~Validate(data))
       THEN UNCHANGED blocks
       ELSE blocks' = MapSet(blocks, id,
                        [blocks[id] EXCEPT !.data = data, !.state = "dirty", !.updatedAt = now])
  /\ UNCHANGED <<configs, editingBlockId, blockCounts, blockIdCounter, now, saves>>

updateBlockData(id, data) ==
  /\ ret' = "undefined"
  /\ IF id \notin DOMAIN blocks
       THEN UNCHANGED blocks
       ELSE blocks' = MapSet(blocks, id,
                        [blocks[id] EXCEPT !.data = data, !.state = "dirty", !.updatedAt = now])
  /\ UNCHANGED <<configs, editingBlockId, blockCounts, blockIdCounter, now, saves>>

\* mutant: the upper end of the shifted range is left out
MovedBlockExclusive(bs, id, newOrder, bid) ==
  LET oldOrder == bs[id].order
      b == bs[bid]
  IN  IF bid = id
        THEN [b EXCEPT !.order = newOrder, !.updatedAt = now]
      ELSE IF oldOrder < newOrder /\ b.order > oldOrder /\ b.order < newOrder
        THEN [b EXCEPT !.order = b.order - 1]
      ELSE IF oldOrder > newOrder /\ b.order >= newOrder /\ b.order < oldOrder
        THEN [b EXCEPT !.order = b.order + 1]
      ELSE b

\* mutant: only the moved block is rewritten
MovedBlockNoShift(bs, id, newOrder, bid) ==
  IF bid = id THEN [bs[bid] EXCEPT !.order = newOrder, !.updatedAt = now] ELSE bs[bid]

\* mutant: a newOrder below zero is clamped to zero
MovedBlockClamped(bs, id, newOrder, bid) ==
  LET oldOrder == bs[id].order
      target == IF newOrder < 0 THEN 0 ELSE newOrder
      b == bs[bid]
  IN  IF bid = id
        THEN [b EXCEPT !.order = target, !.updatedAt = now]
      ELSE IF oldOrder < target /\ b.order > oldOrder /\ b.order <= target
        THEN [b EXCEPT !.order = b.order - 1]
      ELSE IF oldOrder > target /\ b.order >= target /\ b.order < oldOrder
        THEN [b EXCEPT !.order = b.order + 1]
      ELSE b

\* mutant: the moved block trades places with the block at newOrder
MovedBlockSwap(bs, id, newOrder, bid) ==
  IF bid = id
    THEN [bs[bid] EXCEPT !.order = newOrder, !.updatedAt = now]
  ELSE IF bs[bid].order = newOrder
    THEN [bs[bid] EXCEPT !.order = bs[id].order]
  ELSE bs[bid]

\* what moveBlock's forEach writes for block bid
MovedBlock(bs, id, newOrder, bid) ==
  LET oldOrder == bs[id].order
      b == bs[bid]
  IN  IF bid = id
        THEN [b EXCEPT !.order = newOrder, !.updatedAt = now]
      ELSE IF oldOrder < newOrder /\ b.order > oldOrder /\ b.order <= newOrder
        THEN [b EXCEPT !.order = b.order - 1]
      ELSE IF oldOrder > newOrder /\ b.order >= newOrder /\ b.order < oldOrder
        THEN [b EXCEPT !.order = b.order + 1]
      ELSE b

moveBlock(id, newOrder) ==
  /\ ret' = "undefined"
  /\ IF id \notin DOMAIN blocks
       THEN UNCHANGED blocks
       ELSE blocks' = [bid \in DOMAIN blocks |-> MovedBlock(blocks, id, newOrder, bid)]
  /\ UNCHANGED <<configs, editingBlockId, blockCounts, blockIdCounter, now, saves>>

(***************************************************************************)
(* Edit mode orchestration.                                                *)
(***************************************************************************)
\* mutant: enableBlockEdit leaves the block that was editing in edit mode
enableBlockEditKeepsOther(id) ==
  /\ ret' = "undefined"
  /\ IF id \notin DOMAIN blocks
       THEN UNCHANGED <<blocks, editingBlockId>>
       ELSE /\ blocks' = MapSet(blocks, id, [blocks[id] EXCEPT !.isEditing = TRUE])
            /\ editingBlockId' = id
  /\ UNCHANGED <<configs, blockCounts, blockIdCounter, now, saves>>

\* mutant: enableBlockEdit ends the current edit before it looks the id up
enableBlockEditDropsEditor(id) ==
  /\ ret' = "undefined"
  /\ blocks' =
       [bid \in DOMAIN blocks |->
          IF bid = id THEN [blocks[bid] EXCEPT !.isEditing = TRUE]
          ELSE IF editingBlockId # NoId /\ bid = editingBlockId
            THEN [blocks[bid] EXCEPT !.isEditing = FALSE]
          ELSE blocks[bid]]
  /\ editingBlockId' = IF id \in DOMAIN blocks THEN id ELSE NoId
  /\ UNCHANGED <<configs, blockCounts, blockIdCounter, now, saves>>

\* mutant: the block that loses edit mode is marked as saved
enableBlockEditAutoSaves(id) ==
  /\ ret' = "undefined"
  /\ IF id \notin DOMAIN blocks
       THEN UNCHANGED <<blocks, editingBlockId>>
       ELSE /\ blocks' =
                 [bid \in DOMAIN blocks |->
                    IF bid = id THEN [blocks[bid] EXCEPT !.isEditing = TRUE]
                    ELSE IF editingBlockId # NoId /\ bid = editingBlockId
                      THEN [blocks[bid] EXCEPT !.isEditing = FALSE, !.state = "clean",
                                               !.savedAt = now]
                    ELSE blocks[bid]]
            /\ editingBlockId' = id
  /\ UNCHANGED <<configs, blockCounts, blockIdCounter, now, saves>>

enableBlockEdit(id) ==
  /\ ret' = "undefined"
  /\ IF id \notin DOMAIN blocks
       THEN UNCHANGED <<blocks, editingBlockId>>
       ELSE /\ blocks' =
                 [bid \in DOMAIN blocks |->
                    IF bid = id THEN [blocks[bid] EXCEPT !.isEditing = TRUE]
                    ELSE IF editingBlockId # NoId /\ bid = editingBlockId
                      THEN [blocks[bid] EXCEPT !.isEditing = FALSE]
                    ELSE blocks[bid]]
            /\ editingBlockId' = id
  /\ UNCHANGED <<configs, blockCounts, blockIdCounter, now, saves>>

\* mutant: disableBlockEdit clears the pointer whichever block it pointed at
disableBlockEditClearsPointer(id) ==
  /\ ret' = "undefined"
  /\ IF id \notin DOMAIN blocks
       THEN UNCHANGED <<blocks, editingBlockId>>
       ELSE /\ blocks' = MapSet(blocks, id, [blocks[id] EXCEPT !.isEditing = FALSE])
            /\ editingBlockId' = NoId
  /\ UNCHANGED <<configs, blockCounts, blockIdCounter, now, saves>>

disableBlockEdit(id) ==
  /\ ret' = "undefined"
  /\ IF id \notin DOMAIN blocks
       THEN UNCHANGED <<blocks, editingBlockId>>
       ELSE /\ blocks' = MapSet(blocks, id, [blocks[id] EXCEPT !.isEditing = FALSE])
            /\ editingBlockId' = IF editingBlockId = id THEN NoId ELSE editingBlockId
  /\ UNCHANGED <<configs, blockCounts, blockIdCounter, now, saves>>

(***************************************************************************)
(* saveBlock.                                                              *)
(***************************************************************************)
\* mutant: the write forgets savedAt
SaveWriteNoSavedAt(id, block) ==
  /\ blocks' = MapSet(blocks, id,
                 [block EXCEPT !.state = "clean", !.isEditing = FALSE, !.updatedAt = now])
  /\ editingBlockId' = IF editingBlockId = id THEN NoId ELSE editingBlockId

\* mutant: the write clears editingBlockId whoever holds it
SaveWriteClearsPointer(id, block) ==
  /\ blocks' = MapSet(blocks, id,
                 [block EXCEPT !.state = "clean", !.isEditing = FALSE,
                               !.updatedAt = now, !.savedAt = now])
  /\ editingBlockId' = NoId

\* mutant: the write marks clean the block as the store holds it now, with the
\* data pushed during the await
SaveWriteCurrentData(id, block) ==
  /\ blocks' = MapSet(blocks, id,
                 [(IF id \in DOMAIN blocks THEN blocks[id] ELSE block)
                    EXCEPT !.state = "clean", !.isEditing = FALSE,
                           !.updatedAt = now, !.savedAt = now])
  /\ editingBlockId' = IF editingBlockId = id THEN NoId ELSE editingBlockId

\* the set(...) after the await: it writes the block captured before the await
SaveWrite(id, block) ==
  /\ blocks' = MapSet(blocks, id,
                 [block EXCEPT !.state = "clean", !.isEditing = FALSE,
                               !.updatedAt = now, !.savedAt = now])
  /\ editingBlockId' = IF editingBlockId = id THEN NoId ELSE editingBlockId

\* !block || !config
NotFound(id) ==
  IF id \in DOMAIN blocks THEN blocks[id].type \notin DOMAIN configs ELSE TRUE

\* mutant: saveBlock skips the validator
DataRejectedNever(id) == FALSE

\* config.validate && !config.validate(block.data)
DataRejected(id) ==
  configs[blocks[id].type].hasValidate /\ ~Validate(blocks[id].data)

\* mutant: a missing block or configuration is a silent no-op, as in the other
\* operations
SaveBlockNotFoundSilent(id) ==
  /\ NotFound(id)
  /\ ret' = "resolved"
  /\ UNCHANGED <<blocks, configs, editingBlockId, blockCounts, blockIdCounter, now, saves>>

\* saveBlock rejects: the block or its configuration is not found
SaveBlockNotFound(id) ==
  /\ NotFound(id)
  /\ ret' = "rejected: Block or config not found"
  /\ UNCHANGED <<blocks, configs, editingBlockId, blockCounts, blockIdCounter, now, saves>>

\* saveBlock rejects: the validator rejects the block's data
SaveBlockInvalid(id) ==
  /\ ~NotFound(id)
  /\ DataRejected(id)
  /\ ret' = "rejected: validation failed"
  /\ UNCHANGED <<blocks, configs, editingBlockId, blockCounts, blockIdCounter, now, saves>>

\* saveBlock calls onSave(block) and is suspended at the await
SaveBlockAwait(id) ==
  /\ ~NotFound(id)
  /\ ~DataRejected(id)
  /\ configs[blocks[id].type].hasOnSave
  /\ ret' = "pending"
  /\ saves' = saves (+) SetToBag({[id |-> id, block |-> blocks[id]]})
  /\ UNCHANGED <<blocks, configs, editingBlockId, blockCounts, blockIdCounter, now>>

\* saveBlock with no onSave: it runs to its end without suspending
SaveBlockSync(id) ==
  /\ ~NotFound(id)
  /\ ~DataRejected(id)
  /\ ~configs[blocks[id].type].hasOnSave
  /\ ret' = "resolved"
  /\ SaveWrite(id, blocks[id])
  /\ UNCHANGED <<configs, blockCounts, blockIdCounter, now, saves>>

saveBlock(id) ==
  \/ SaveBlockNotFound(id)
  \/ SaveBlockInvalid(id)
  \/ SaveBlockAwait(id)
  \/ SaveBlockSync(id)

\* onSave resolved: the suspended call resumes and writes
SaveResume(call) ==
  /\ BagIn(call, saves)
  /\ ret' = "resolved"
  /\ saves' = saves (-) SetToBag({call})
  /\ SaveWrite(call.id, call.block)
  /\ UNCHANGED <<configs, blockCounts, blockIdCounter, now>>

\* mutant: the write after the await runs although onSave rejected
SaveFailMarksClean(call) ==
  /\ BagIn(call, saves)
  /\ ret' = "rejected: onSave failed"
  /\ saves' = saves (-) SetToBag({call})
  /\ SaveWrite(call.id, call.block)
  /\ UNCHANGED <<configs, blockCounts, blockIdCounter, now>>

\* onSave rejected: the suspended call rejects without writing
SaveFail(call) ==
  /\ BagIn(call, saves)
  /\ ret' = "rejected: onSave failed"
  /\ saves' = saves (-) SetToBag({call})
  /\ UNCHANGED <<blocks, configs, editingBlockId, blockCounts, blockIdCounter, now>>

\* the ways saveBlock's promise rejects
Rejections ==
  {"rejected: Block or config not found", "rejected: validation failed",
   "rejected: onSave failed"}

\* SortableBlock.handleSave: try { await store.saveBlock(id) } catch (error)
\* { onError?.(error) }: what onError receives for an outcome of saveBlock
handleSave(outcome) ==
  IF outcome \in Rejections THEN outcome ELSE "onError not called"

(***************************************************************************)
(* Reset.                                                                  *)
(***************************************************************************)
\* mutant: reset forgets the counters
resetKeepsCounts ==
  /\ ret' = "undefined"
  /\ blocks' = << >>
  /\ configs' = << >>
  /\ editingBlockId' = NoId
  /\ UNCHANGED <<blockCounts, blockIdCounter, now, saves>>

reset ==
  /\ ret' = "undefined"
  /\ blocks' = << >>
  /\ configs' = << >>
  /\ editingBlockId' = NoId
  /\ blockCounts' = << >>
  /\ UNCHANGED <<blockIdCounter, now, saves>>

(***************************************************************************)
(* State queries.                                                          *)
(***************************************************************************)
\* mutant: the comparison with maxBlocks lets one more through
canAddBlockInclusive(type) ==
  IF type \notin DOMAIN configs THEN FALSE
  ELSE IF configs[type].maxBlocks = NoLimit THEN TRUE
  ELSE CountOf(blockCounts, type) <= configs[type].maxBlocks

\* Array.sort((a, b) => a.order - b.order) over the blocks `ids`: ascending by
\* order; blocks of equal order stay in the order the Map holds them, which is
\* the order of their ids
RECURSIVE SortByOrder(_, _)
SortByOrder(bs, ids) ==
  IF ids = {} THEN << >>
  ELSE LET first == CHOOSE i \in ids :
                      \A j \in ids : \/ bs[i].order < bs[j].order
                                     \/ bs[i].order = bs[j].order /\ i <= j
       IN  <<first>> \o SortByOrder(bs, ids \ {first})

\* mutant: the filter on the type is left out
getBlocksByTypeUnfiltered(type) == SortByOrder(blocks, DOMAIN blocks)

\* the ids of the blocks getBlocksByType returns, in the order it returns them
getBlocksByType(type) == SortByOrder(blocks, BlocksOfType(blocks, type))

canAddBlock(type) ==
  IF type \notin DOMAIN configs THEN FALSE
  ELSE IF configs[type].maxBlocks = NoLimit THEN TRUE
  ELSE CountOf(blockCounts, type) < configs[type].maxBlocks

getEditingBlock ==
  IF editingBlockId # NoId /\ editingBlockId \in DOMAIN blocks
    THEN editingBlockId ELSE NoId

(***************************************************************************)
(* The store with every operation, saves suspended in onSave included.     *)
(* The clock stands still: no operation reads a timestamp.                 *)
(***************************************************************************)
\* ids callers pass: every id handed out so far and one that never existed
CallIds == 1 .. (blockIdCounter + 1)

\* payloads callers push: one the validator accepts (the default's value) and one
\* it rejects
UpdateData == {"d0", "bad"}

\* orders callers move to: the order of a block present, as a drag does
MoveOrders == {blocks[j].order : j \in DOMAIN blocks}

\* a call on the store itself: the BlockManager's timers and the history of
\* saves are not touched
Frame == UNCHANGED <<timers, savedData>>

\* the model's bounds on a step
Bounded ==
  /\ blockIdCounter' <= MaxIds
  /\ BagCardinality(saves') <= MaxSaves
  /\ now' <= MaxClock

Next ==
  \/ \E config \in AllConfigs : registerConfig(config) /\ Frame
  \/ \E type \in Types : unregisterConfig(type) /\ Frame
  \/ \E type \in Types : addBlock(type) /\ Bounded /\ Frame
  \/ \E id \in CallIds : removeBlock(id) /\ Frame
  \/ \E id \in CallIds, data \in UpdateData : updateBlockData(id, data) /\ Frame
  \/ \E id \in CallIds, newOrder \in MoveOrders : moveBlock(id, newOrder) /\ Frame
  \/ \E id \in CallIds : enableBlockEdit(id) /\ Frame
  \/ \E id \in CallIds : disableBlockEdit(id) /\ Frame
  \/ \E id \in CallIds : saveBlock(id) /\ Bounded /\ Frame
  \/ \E call \in BagToSet(saves) : SaveResume(call) /\ Frame
  \/ \E call \in BagToSet(saves) : SaveFail(call) /\ Frame
  \/ reset /\ Frame

Spec == Init /\ [][Next]_vars

(***************************************************************************)
(* The store under synchronous operations only: no registered              *)
(* configuration carries onSave, so no saveBlock is ever in flight.        *)
(***************************************************************************)
NextSync ==
  \/ \E config \in SyncConfigs : registerConfig(config) /\ Frame
  \/ \E type \in Types : unregisterConfig(type) /\ Frame
  \/ \E type \in Types : addBlock(type) /\ Bounded /\ Frame
  \/ \E id \in CallIds : removeBlock(id) /\ Frame
  \/ \E id \in CallIds, data \in UpdateData : updateBlockData(id, data) /\ Frame
  \/ \E id \in CallIds, newOrder \in MoveOrders : moveBlock(id, newOrder) /\ Frame
  \/ \E id \in CallIds : enableBlockEdit(id) /\ Frame
  \/ \E id \in CallIds : disableBlockEdit(id) /\ Frame
  \/ \E id \in CallIds : saveBlock(id) /\ Bounded /\ Frame
  \/ reset /\ Frame

SpecSync == Init /\ [][NextSync]_vars

(***************************************************************************)
(* Sequences of addBlock and removeBlock calls on registered types.        *)
(***************************************************************************)
NextAddRemove ==
  \/ \E config \in SyncConfigs : registerConfig(config) /\ Frame
  \/ \E type \in Types : addBlock(type) /\ Bounded /\ Frame
  \/ \E id \in CallIds : removeBlock(id) /\ Frame

SpecAddRemove == Init /\ [][NextAddRemove]_vars

(***************************************************************************)
(* Reordering: blocks of two unlimited types are added, removed and moved  *)
(* to any position, out of range included (moveBlock does not clamp).      *)
(***************************************************************************)
\* configurations with no limit, validator or onSave
UnlimitedConfigs == {Config(type, NoLimit, "d0", FALSE, FALSE) : type \in Types}

\* orders callers move to
MoveTargets == -2 .. MaxMoveIds

\* the model's bound on a step of a reordering scenario
BoundedMove == blockIdCounter' <= MaxMoveIds

NextMove ==
  \/ \E config \in UnlimitedConfigs : registerConfig(config) /\ Frame
  \/ \E type \in Types : addBlock(type) /\ BoundedMove /\ Frame
  \/ \E id \in CallIds : removeBlock(id) /\ Frame
  \/ \E id \in CallIds, newOrder \in MoveTargets : moveBlock(id, newOrder) /\ Frame

SpecMove == Init /\ [][NextMove]_vars

\* sequences of addBlock and moveBlock calls, no removals
NextAddMove ==
  \/ \E config \in UnlimitedConfigs : registerConfig(config) /\ Frame
  \/ \E type \in Types : addBlock(type) /\ BoundedMove /\ Frame
  \/ \E id \in CallIds, newOrder \in MoveTargets : moveBlock(id, newOrder) /\ Frame

SpecAddMove == Init /\ [][NextAddMove]_vars

(***************************************************************************)
(* Creation: configurations whose default payload the validator accepts or *)
(* rejects are registered and replaced, blocks are added, removed, moved   *)
(* to any position and put in edit mode, and the clock runs.               *)
(***************************************************************************)
\* text is limited to one block and validated, with a default payload the
\* validator accepts or rejects; image is unlimited and not validated
CreateConfigs ==
  {Config("text", 1, default, TRUE, FALSE) : default \in {"d0", "bad"}}
    \cup {Config("image", NoLimit, "bad", FALSE, FALSE)}

NextCreate ==
  \/ Tick /\ Bounded /\ Frame
  \/ \E config \in CreateConfigs : registerConfig(config) /\ Frame
  \/ \E type \in Types : addBlock(type) /\ Bounded /\ Frame
  \/ \E id \in CallIds : removeBlock(id) /\ Frame
  \/ \E id \in CallIds, newOrder \in MoveTargets : moveBlock(id, newOrder) /\ Frame
  \/ \E id \in CallIds : enableBlockEdit(id) /\ Frame

SpecCreate == Init /\ [][NextCreate]_vars

(***************************************************************************)
(* The store with the text configuration registered once and never         *)
(* replaced, a running clock, and saves suspended in onSave.               *)
(***************************************************************************)
InitFixed ==
  /\ blocks = << >>
  /\ \E config \in FixedConfigs : configs = [t \in {config.type} |-> config]
  /\ editingBlockId = NoId
  /\ blockCounts = << >>
  /\ blockIdCounter = 0
  /\ now = 0
  /\ saves = EmptyBag
  /\ ret = "none"
  /\ timers = {}
  /\ savedData = << >>

NextFixed ==
  \/ Tick /\ Bounded /\ Frame
  \/ addBlock("text") /\ Bounded /\ Frame
  \/ \E id \in CallIds : removeBlock(id) /\ Frame
  \/ \E id \in CallIds, data \in UpdateData : updateBlockData(id, data) /\ Frame
  \/ \E id \in CallIds, newOrder \in MoveOrders : moveBlock(id, newOrder) /\ Frame
  \/ \E id \in CallIds : enableBlockEdit(id) /\ Frame
  \/ \E id \in CallIds : disableBlockEdit(id) /\ Frame
  \/ \E id \in CallIds : saveBlock(id) /\ Bounded /\ Frame
  \/ \E call \in BagToSet(saves) : SaveResume(call) /\ Frame
  \/ \E call \in BagToSet(saves) : SaveFail(call) /\ Frame

SpecFixed == InitFixed /\ [][NextFixed]_vars

(***************************************************************************)
(* The BlockManager of one type over the store: its configuration is       *)
(* registered on mount; blocks are added with the add button, clicked,     *)
(* edited, saved and cancelled through the callbacks of SortableBlock, and *)
(* removed by a call on the store.  Each add schedules a timer that puts   *)
(* the new block in edit mode.                                             *)
(***************************************************************************)
\* the type prop of the BlockManager
ManagerType == "text"

\* the config prop: limited, not validated, with or without onSave
ManagerConfigs == {Config(ManagerType, MaxLimit, "d0", FALSE, hasOnSave) : hasOnSave \in BOOLEAN}

\* the blocks the BlockManager renders
Rendered == BlocksOfType(blocks, ManagerType)

\* what the block's element displays: renderEdit while the block is editing,
\* renderView of the block's data otherwise
Displayed(block) == IF block.isEditing THEN "edit" ELSE block.data

InitManager ==
  /\ blocks = << >>
  /\ \E config \in ManagerConfigs : configs = [t \in {config.type} |-> config]
  /\ editingBlockId = NoId
  /\ blockCounts = << >>
  /\ blockIdCounter = 0
  /\ now = 0
  /\ saves = EmptyBag
  /\ ret = "none"
  /\ timers = {}
  /\ savedData = << >>

\* the add button: BlockLimitError goes to onError when canAdd is false;
\* otherwise addBlock, and setTimeout(enableBlockEdit) for the id it returned
handleAddBlock ==
  IF ~canAddBlock(ManagerType)
    THEN /\ ret' = "onError: BlockLimitError"
         /\ UNCHANGED <<blocks, configs, editingBlockId, blockCounts, blockIdCounter,
                        now, saves, timers, savedData>>
    ELSE /\ addBlock(ManagerType)
         /\ timers' = IF ret' = "id" THEN timers \cup {blockIdCounter'} ELSE timers
         /\ UNCHANGED savedData

\* mutant: the timer leaves a block that is editing in edit mode
TimerFireIfIdle(id) ==
  /\ id \in timers
  /\ timers' = timers \ {id}
  /\ IF editingBlockId = NoId
       THEN enableBlockEdit(id)
       ELSE /\ ret' = "undefined"
            /\ UNCHANGED <<blocks, configs, editingBlockId, blockCounts, blockIdCounter,
                           now, saves>>
  /\ UNCHANGED savedData

\* the timeout callback of handleAddBlock: store.enableBlockEdit(blockId)
TimerFire(id) ==
  /\ id \in timers
  /\ timers' = timers \ {id}
  /\ enableBlockEdit(id)
  /\ UNCHANGED savedData

\* a click on a rendered block
handleClick(id) ==
  /\ id \in Rendered
  /\ ~blocks[id].isEditing
  /\ enableBlockEdit(id)
  /\ Frame

\* onChange of the edit component, rendered while the block is editing
handleChange(id, data) ==
  /\ id \in Rendered
  /\ blocks[id].isEditing
  /\ updateBlockData(id, data)
  /\ Frame

\* onCancel of the edit component
handleCancel(id) ==
  /\ id \in Rendered
  /\ blocks[id].isEditing
  /\ disableBlockEdit(id)
  /\ Frame

\* onSave of the edit component: handleSave awaits store.saveBlock; a save
\* that resolves at once records the data it saved
onSave(id) ==
  /\ id \in Rendered
  /\ blocks[id].isEditing
  /\ saveBlock(id)
  /\ savedData' = IF ret' = "resolved" THEN MapSet(savedData, id, blocks[id].data)
                  ELSE savedData
  /\ UNCHANGED timers

\* config.onSave resolves: the save records the data it was given
onSaveResolved(call) ==
  /\ SaveResume(call)
  /\ savedData' = MapSet(savedData, call.id, call.block.data)
  /\ UNCHANGED timers

NextManager ==
  \/ handleAddBlock /\ Bounded
  \/ \E id \in timers : TimerFire(id)
  \/ \E id \in CallIds : handleClick(id)
  \/ \E id \in CallIds, data \in UpdateData : handleChange(id, data)
  \/ \E id \in CallIds : handleCancel(id)
  \/ \E id \in CallIds : onSave(id) /\ Bounded
  \/ \E call \in BagToSet(saves) : onSaveResolved(call)
  \/ \E id \in CallIds : removeBlock(id) /\ Frame

\* the event loop runs every timeout callback: nothing clears a timer
TimersFire == \A id \in 1 .. MaxIds : WF_vars(TimerFire(id))

SpecManager == InitManager /\ [][NextManager]_vars /\ TimersFire

(***************************************************************************)
(* Drag and drop: one BlockManager per type over the store; blocks are     *)
(* added, dragged onto each other and saved, with saves suspended in       *)
(* onSave.                                                                 *)
(***************************************************************************)
\* text is saved through onSave, image is not; neither is limited or validated
DragConfigs ==
  {Config("text", NoLimit, "d0", FALSE, TRUE), Config("image", NoLimit, "d0", FALSE, FALSE)}

\* BlockManager.handleDragEnd of the manager of `type`, for a drag of `active`
\* dropped on `over`: nothing happens when they are the same; DragDropError goes
\* to onError when either is not in the manager's list; otherwise
\* store.moveBlock(activeBlock.id, overBlock.order)
handleDragEnd(type, active, over) ==
  /\ active # over
  /\ IF active \notin BlocksOfType(blocks, type) \/ over \notin BlocksOfType(blocks, type)
       THEN /\ ret' = "onError: DragDropError"
            /\ UNCHANGED <<blocks, configs, editingBlockId, blockCounts, blockIdCounter,
                           now, saves>>
       ELSE moveBlock(active, blocks[over].order)
  /\ Frame

NextDrag ==
  \/ \E config \in DragConfigs : registerConfig(config) /\ Frame
  \/ \E type \in Types : addBlock(type) /\ BoundedMove /\ Frame
  \/ \E type \in Types, active \in CallIds, over \in CallIds : handleDragEnd(type, active, over)
  \/ \E id \in CallIds : saveBlock(id) /\ Bounded /\ Frame
  \/ \E call \in BagToSet(saves) : SaveResume(call) /\ Frame

SpecDrag == Init /\ [][NextDrag]_vars

(***************************************************************************)
(* Remounting: the BlockManager of a type unregisters its configuration on *)
(* unmount and registers one on mount, with a limit that may differ;       *)
(* blocks are added, removed and saved in between.                         *)
(***************************************************************************)
\* the configurations a mount registers: limited, with or without onSave
RemountConfigs ==
  {Config(ManagerType, maxBlocks, "d0", FALSE, hasOnSave) :
     maxBlocks \in 1 .. MaxLimit, hasOnSave \in BOOLEAN}

NextRemount ==
  \/ \E config \in RemountConfigs : registerConfig(config) /\ Frame
  \/ unregisterConfig(ManagerType) /\ Frame
  \/ addBlock(ManagerType) /\ Bounded /\ Frame
  \/ \E id \in CallIds : removeBlock(id) /\ Frame
  \/ \E id \in CallIds : saveBlock(id) /\ Bounded /\ Frame
  \/ \E call \in BagToSet(saves) : SaveResume(call) /\ Frame

SpecRemount == Init /\ [][NextRemount]_vars

(***************************************************************************)
(* Claims.                                                                 *)
(***************************************************************************)
\* the blocks in edit mode
Editing == {i \in DOMAIN blocks : blocks[i].isEditing}

\* the number of blocks of a type that are present
NumBlocks(type) == Cardinality(BlocksOfType(blocks, type))

\* C1: in every reachable state at most one block has isEditing = true, and
\* editingBlockId is null exactly when no block is editing and otherwise is the
\* id of the one block that is.
SingleEditMode ==
  /\ Cardinality(Editing) <= 1
  /\ (editingBlockId = NoId) <=> (Editing = {})
  /\ editingBlockId # NoId => Editing = {editingBlockId}

\* C1 witness: a block is in edit mode beside another block while a save is
\* suspended in onSave.
SingleEditModeWitness ==
  /\ editingBlockId # NoId
  /\ Cardinality(DOMAIN blocks) = 2
  /\ saves # EmptyBag

\* C2: after every enableBlockEdit(id) on an existing block, id is editing, no
\* other block is, and editingBlockId = id.
EnableMakesSoleEditor ==
  [][\A id \in CallIds :
       (id \in DOMAIN blocks /\ enableBlockEdit(id)) =>
         /\ blocks'[id].isEditing
         /\ \A other \in DOMAIN blocks' \ {id} : ~blocks'[other].isEditing
         /\ editingBlockId' = id]_vars

\* C2 witness: the second block took edit mode; the first is present and is not
\* editing.
EnableMakesSoleEditorWitness ==
  /\ {1, 2} \subseteq DOMAIN blocks
  /\ editingBlockId = 2
  /\ blocks[2].isEditing
  /\ ~blocks[1].isEditing
  /\ ret = "undefined"

\* C3: with maxBlocks = N registered and N blocks of the type added, the next
\* addBlock(type) returns null and leaves the store unchanged, the counter at N.
AddAtLimitReturnsNull ==
  [][\A type \in Types :
       ( /\ type \in DOMAIN configs
         /\ configs[type].maxBlocks # NoLimit
         /\ NumBlocks(type) = configs[type].maxBlocks
         /\ addBlock(type) ) =>
         /\ ret' = "null"
         /\ UNCHANGED <<blocks, configs, editingBlockId, blockCounts, blockIdCounter>>
         /\ CountOf(blockCounts', type) = configs[type].maxBlocks]_vars

\* C3 witness: addBlock returned null with MaxLimit text blocks present.
AddAtLimitReturnsNullWitness ==
  /\ ret = "null"
  /\ "text" \in DOMAIN configs
  /\ configs["text"].maxBlocks = MaxLimit
  /\ NumBlocks("text") = MaxLimit
  /\ CountOf(blockCounts, "text") = MaxLimit

\* C4: with the configuration registered once, the blocks of a limited type
\* never outnumber its maxBlocks.
LimitNeverExceeded ==
  \A type \in DOMAIN configs :
    configs[type].maxBlocks # NoLimit => NumBlocks(type) <= configs[type].maxBlocks

\* C5: after any sequence of synchronous calls the per-type counter (absent
\* counted as 0) equals the number of blocks of that type present.
CounterAccurate ==
  \A type \in Types : CountOf(blockCounts, type) = NumBlocks(type)

\* C5 witness: two blocks were added and one of them removed; the counter is 1.
CounterAccurateWitness ==
  /\ blockIdCounter = 2
  /\ NumBlocks("text") = 1
  /\ CountOf(blockCounts, "text") = 1
  /\ ret = "undefined"

\* C6: the per-type counter equals the number of live blocks of the type in
\* every reachable state, saves suspended in onSave included.
CounterMatchesLiveBlocks ==
  \A type \in Types : NumBlocks(type) = CountOf(blockCounts, type)

\* C7: when onSave resolves for a block that was removed during the save,
\* saveBlock applies no mutation, the block stays absent, and the call resolves.
ResumeAfterRemovalIsNoOp ==
  [][\A call \in BagToSet(saves) :
       (call.id \notin DOMAIN blocks /\ SaveResume(call)) =>
         /\ call.id \notin DOMAIN blocks'
         /\ UNCHANGED <<blocks, configs, editingBlockId, blockCounts>>
         /\ ret' = "resolved"]_vars

\* a saveBlock(id) call that succeeds: without onSave, or on onSave resolving
SaveSucceeds(id) ==
  \/ SaveBlockSync(id)
  \/ \E call \in BagToSet(saves) : call.id = id /\ SaveResume(call)

\* C8: a successful saveBlock(id) leaves the block clean, out of edit mode and
\* with a defined savedAt equal to its updatedAt, and editingBlockId is cleared
\* if and only if it pointed at this block.
SaveYieldsClean ==
  [][\A id \in CallIds :
       SaveSucceeds(id) =>
         /\ id \in DOMAIN blocks'
         /\ blocks'[id].state = "clean"
         /\ ~blocks'[id].isEditing
         /\ blocks'[id].savedAt # NoTime
         /\ blocks'[id].savedAt = blocks'[id].updatedAt
         /\ editingBlockId' = (IF editingBlockId = id THEN NoId ELSE editingBlockId)]_vars

\* C8 witness: a save resolved after the clock moved: a block created earlier is
\* clean with savedAt = updatedAt = now.
SaveYieldsCleanWitness ==
  /\ ret = "resolved"
  /\ \E id \in DOMAIN blocks :
       /\ blocks[id].state = "clean"
       /\ blocks[id].savedAt = now
       /\ blocks[id].updatedAt = now
       /\ blocks[id].createdAt < now

\* C9: saveBlock(id) rejects when the block or its type's configuration is
\* missing; nothing in the store changes and onSave is not invoked.
SaveNotFoundRejects ==
  [][\A id \in CallIds :
       ( /\ (id \in DOMAIN blocks => blocks[id].type \notin DOMAIN configs)
         /\ saveBlock(id) ) =>
         /\ ret' = "rejected: Block or config not found"
         /\ UNCHANGED <<blocks, configs, editingBlockId, blockCounts, saves>>]_vars

\* C9 witness: saveBlock rejected for a block whose configuration was
\* unregistered.
SaveNotFoundRejectsWitness ==
  /\ ret = "rejected: Block or config not found"
  /\ \E id \in DOMAIN blocks : blocks[id].type \notin DOMAIN configs

\* C10: when the validator rejects the block's data, saveBlock(id) rejects,
\* onSave is not invoked and the store is unchanged.
SaveInvalidRejects ==
  [][\A id \in DOMAIN blocks :
       ( /\ blocks[id].type \in DOMAIN configs
         /\ configs[blocks[id].type].hasValidate
         /\ ~Validate(blocks[id].data)
         /\ saveBlock(id) ) =>
         /\ ret' = "rejected: validation failed"
         /\ UNCHANGED <<blocks, configs, editingBlockId, blockCounts, saves>>]_vars

\* C10 witness: saveBlock rejected the invalid data of a dirty block in edit
\* mode under a configuration that carries onSave.
SaveInvalidRejectsWitness ==
  /\ ret = "rejected: validation failed"
  /\ \E id \in DOMAIN blocks :
       /\ blocks[id].data = "bad"
       /\ blocks[id].state = "dirty"
       /\ blocks[id].isEditing
       /\ blocks[id].type \in DOMAIN configs
       /\ configs[blocks[id].type].hasOnSave

\* C11: when onSave rejects, saveBlock(id) rejects with that failure and mutates
\* nothing: the block keeps its state, isEditing and savedAt, editingBlockId is
\* unchanged, and handleSave passes the error to onError.
SaveFailureKeepsBlock ==
  [][\A call \in BagToSet(saves) :
       SaveFail(call) =>
         /\ ret' = "rejected: onSave failed"
         /\ handleSave(ret') = "rejected: onSave failed"
         /\ UNCHANGED <<blocks, configs, editingBlockId, blockCounts>>
         /\ call.id \in DOMAIN blocks =>
              /\ blocks'[call.id].state = blocks[call.id].state
              /\ blocks'[call.id].isEditing = blocks[call.id].isEditing
              /\ blocks'[call.id].savedAt = blocks[call.id].savedAt]_vars

\* C11 witness: onSave rejected for a dirty block in edit mode that was never
\* saved; it is still dirty, editing and unsaved, and no call is suspended.
SaveFailureKeepsBlockWitness ==
  /\ ret = "rejected: onSave failed"
  /\ saves = EmptyBag
  /\ editingBlockId # NoId
  /\ editingBlockId \in DOMAIN blocks
  /\ blocks[editingBlockId].state = "dirty"
  /\ blocks[editingBlockId].isEditing
  /\ blocks[editingBlockId].savedAt = NoTime

\* C12: updateBlockData(id, data) on an existing block yields state = dirty and
\* data = the given payload, whatever the prior state and edit mode and whether
\* or not a validator accepts the payload; it does not fail, and isEditing,
\* order, editingBlockId and the counters are unchanged.
UpdateYieldsDirty ==
  [][\A id \in DOMAIN blocks, data \in UpdateData :
       updateBlockData(id, data) =>
         /\ ret' = "undefined"
         /\ DOMAIN blocks' = DOMAIN blocks
         /\ blocks'[id].state = "dirty"
         /\ blocks'[id].data = data
         /\ blocks'[id].isEditing = blocks[id].isEditing
         /\ blocks'[id].order = blocks[id].order
         /\ \A other \in DOMAIN blocks \ {id} : blocks'[other] = blocks[other]
         /\ UNCHANGED <<editingBlockId, blockCounts, configs>>]_vars

\* C12 witness: a block that had been saved (clean) was updated, in edit mode,
\* with a payload its type's validator rejects: it is dirty and holds the payload.
UpdateYieldsDirtyWitness ==
  /\ ret = "undefined"
  /\ \E id \in DOMAIN blocks :
       /\ blocks[id].state = "dirty"
       /\ blocks[id].data = "bad"
       /\ blocks[id].savedAt # NoTime
       /\ blocks[id].isEditing
       /\ blocks[id].type \in DOMAIN configs
       /\ configs[blocks[id].type].hasValidate

\* C13: moveBlock(id, newOrder) on an existing block sets its order to newOrder;
\* moving to a higher order, every other block whose order was in
\* (oldOrder, newOrder] goes down by one; moving to a lower order, every other
\* block whose order was in [newOrder, oldOrder) goes up by one; every other
\* block keeps its order.
MoveShiftsOthers ==
  [][\A id \in DOMAIN blocks, newOrder \in MoveTargets :
       moveBlock(id, newOrder) =>
         LET oldOrder == blocks[id].order
         IN  /\ DOMAIN blocks' = DOMAIN blocks
             /\ blocks'[id].order = newOrder
             /\ \A other \in DOMAIN blocks \ {id} :
                  LET order == blocks[other].order
                  IN  blocks'[other].order =
                        IF newOrder > oldOrder /\ oldOrder < order /\ order <= newOrder
                          THEN order - 1
                        ELSE IF newOrder < oldOrder /\ newOrder <= order /\ order < oldOrder
                          THEN order + 1
                        ELSE order]_vars

\* C13 witness: three blocks were added (orders 0, 1, 2) and the first was moved
\* to 2: the orders are 2, 0, 1.
MoveShiftsOthersWitness ==
  /\ DOMAIN blocks = {1, 2, 3}
  /\ blocks[1].order = 2
  /\ blocks[2].order = 0
  /\ blocks[3].order = 1
  /\ ret = "undefined"

\* C14: after any sequence of addBlock and moveBlock calls (no removals), the
\* blocks of a type carry no duplicate order.
NoDuplicateOrders ==
  \A type \in Types :
    \A i, j \in BlocksOfType(blocks, type) :
      i # j => blocks[i].order # blocks[j].order

\* C14 witness: three blocks of one type after moves, one of them out of range
\* and the others shifted.
NoDuplicateOrdersWitness ==
  /\ Cardinality(BlocksOfType(blocks, "text")) = 3
  /\ blocks[1].order = 1
  /\ blocks[2].order = -2
  /\ blocks[3].order = 2
  /\ ret = "undefined"

\* C15: for each type, in every reachable state the orders of the blocks of the
\* type are exactly 0 .. count-1, count the number of blocks of the type.
OrdersDense ==
  \A type \in Types :
    {blocks[i].order : i \in BlocksOfType(blocks, type)} = 0 .. (NumBlocks(type) - 1)

\* C16: removeBlock(id) on an existing block deletes exactly that block, takes
\* one off its type's counter (not below zero), clears editingBlockId if and
\* only if it pointed at the removed block (getEditingBlock then finds
\* nothing), and leaves every surviving block as it was, order and isEditing
\* included.
RemoveDeletesOnlyThat ==
  [][\A id \in DOMAIN blocks :
       removeBlock(id) =>
         LET type == blocks[id].type
             count == CountOf(blockCounts, type)
         IN  /\ DOMAIN blocks' = DOMAIN blocks \ {id}
             /\ \A other \in DOMAIN blocks \ {id} : blocks'[other] = blocks[other]
             /\ CountOf(blockCounts', type) = (IF count > 0 THEN count - 1 ELSE 0)
             /\ \A t \in Types \ {type} : CountOf(blockCounts', t) = CountOf(blockCounts, t)
             /\ editingBlockId' = (IF editingBlockId = id THEN NoId ELSE editingBlockId)
             /\ (editingBlockId = id => getEditingBlock' = NoId)
             /\ UNCHANGED configs
             /\ ret' = "undefined"]_vars

\* C16 witness: of two blocks the first was removed: the second is there with
\* its order 1 and still in edit mode, and its type's counter is 1.
RemoveDeletesOnlyThatWitness ==
  /\ DOMAIN blocks = {2}
  /\ blocks[2].order = 1
  /\ blocks[2].isEditing
  /\ editingBlockId = 2
  /\ CountOf(blockCounts, blocks[2].type) = 1
  /\ ret = "undefined"

AddWithoutConfigThrows ==
  [][/\ \A type \in Types :
          (type \notin DOMAIN configs /\ addBlock(type)) =>
            /\ ret' = "throw: Config not found"
            /\ UNCHANGED <<blocks, configs, editingBlockId, blockCounts>>
     /\ \A type \in Types :
          unregisterConfig(type) =>
            /\ DOMAIN configs' = DOMAIN configs \ {type}
            /\ \A other \in DOMAIN configs' : configs'[other] = configs[other]
            /\ UNCHANGED <<blocks, blockCounts, editingBlockId>>]_vars

\* C18 witness: addBlock threw for a type that was unregistered with MaxLimit
\* blocks present and its counter at MaxLimit.
AddWithoutConfigThrowsWitness ==
  /\ ret = "throw: Config not found"
  /\ "text" \notin DOMAIN configs
  /\ NumBlocks("text") = MaxLimit
  /\ CountOf(blockCounts, "text") = MaxLimit

\* what a successful addBlock(type) leaves behind, the new block's order aside:
\* one new block under a fresh id, empty, not editing, createdAt = updatedAt,
\* no savedAt, the default payload; the type's counter one up; the other
\* blocks, the other counters, configs and editingBlockId as they were
AddedOneBlock(type, id) ==
  /\ ret' = "id"
  /\ id > blockIdCounter
  /\ id \notin DOMAIN blocks
  /\ DOMAIN blocks' = DOMAIN blocks \cup {id}
  /\ blocks'[id].type = type
  /\ blocks'[id].state = "empty"
  /\ ~blocks'[id].isEditing
  /\ blocks'[id].createdAt = blocks'[id].updatedAt
  /\ blocks'[id].savedAt = NoTime
  /\ blocks'[id].data = configs[type].default
  /\ \A other \in DOMAIN blocks : blocks'[other] = blocks[other]
  /\ CountOf(blockCounts', type) = CountOf(blockCounts, type) + 1
  /\ \A t \in Types \ {type} : CountOf(blockCounts', t) = CountOf(blockCounts, t)
  /\ UNCHANGED <<configs, editingBlockId>>

InvalidDefaultThrows ==
  [][\A type \in DOMAIN configs :
       ( /\ configs[type].hasValidate
         /\ ~Validate(configs[type].default)
         /\ addBlock(type) ) =>
         /\ ret' = "throw: Invalid default data"
         /\ UNCHANGED <<blocks, blockCounts, configs, editingBlockId>>]_vars

\* C20, amended: when the type's validator rejects the default payload and the
\* type is below its limit, addBlock(type) throws; at the limit it returns
\* null; either way no block is added and no counter changes.
InvalidDefaultThrowsBelowLimit ==
  [][\A type \in DOMAIN configs :
       ( /\ configs[type].hasValidate
         /\ ~Validate(configs[type].default)
         /\ addBlock(type) ) =>
         /\ ret' = IF /\ configs[type].maxBlocks # NoLimit
                      /\ CountOf(blockCounts, type) >= configs[type].maxBlocks
                     THEN "null"
                     ELSE "throw: Invalid default data"
         /\ UNCHANGED <<blocks, blockCounts, configs, editingBlockId>>]_vars

\* C20 witness: addBlock threw on the rejected default of a validated type with
\* no block of the type present; the id it generated is spent.
InvalidDefaultThrowsBelowLimitWitness ==
  /\ ret = "throw: Invalid default data"
  /\ "text" \in DOMAIN configs
  /\ configs["text"].default = "bad"
  /\ NumBlocks("text") = 0
  /\ CountOf(blockCounts, "text") = 0
  /\ blockIdCounter > 0

DisableClearsOwnEditMode ==
  [][\A id \in DOMAIN blocks :
       disableBlockEdit(id) =>
         /\ DOMAIN blocks' = DOMAIN blocks
         /\ blocks'[id] = [blocks[id] EXCEPT !.isEditing = FALSE]
         /\ \A other \in DOMAIN blocks \ {id} : blocks'[other] = blocks[other]
         /\ editingBlockId' = (IF editingBlockId = id THEN NoId ELSE editingBlockId)
         /\ UNCHANGED <<configs, blockCounts>>]_vars

\* C22 witness: no block is in edit mode and a dirty block keeps its state and
\* its pushed payload.
DisableClearsOwnEditModeWitness ==
  /\ ret = "undefined"
  /\ editingBlockId = NoId
  /\ Editing = {}
  /\ \E id \in DOMAIN blocks : blocks[id].state = "dirty" /\ blocks[id].data = "bad"

\* C24: canAddBlock(type) is false with no configuration for type, true with a
\* configuration without maxBlocks, and otherwise true exactly when the type's
\* counter is below maxBlocks; and for a type whose default payload validates
\* addBlock(type) returns an id exactly when canAddBlock(type) is true.
CanAddMatchesAdd ==
  [][\A type \in Types :
       /\ canAddBlock(type) <=>
            /\ type \in DOMAIN configs
            /\ \/ configs[type].maxBlocks = NoLimit
               \/ CountOf(blockCounts, type) < configs[type].maxBlocks
       /\ ( /\ addBlock(type)
            /\ type \in DOMAIN configs =>
                 (~configs[type].hasValidate \/ Validate(configs[type].default)) ) =>
            (ret' = "id" <=> canAddBlock(type))]_vars

\* C24 witness: addBlock returned null for a type at its limit whose default
\* payload validates, and canAddBlock is false for it.
CanAddMatchesAddWitness ==
  /\ ret = "null"
  /\ "text" \in DOMAIN configs
  /\ configs["text"].default = "d0"
  /\ ~canAddBlock("text")
  /\ canAddBlock("image")

\* C26: reset() from any reachable state leaves no blocks, no configurations,
\* no counters and editingBlockId = null: getEditingBlock() finds nothing and
\* canAddBlock is false for every type.
ResetYieldsInitial ==
  [][reset =>
       /\ blocks' = << >>
       /\ configs' = << >>
       /\ blockCounts' = << >>
       /\ editingBlockId' = NoId
       /\ getEditingBlock' = NoId
       /\ \A type \in Types : ~canAddBlock(type)'
       /\ \A type \in Types : BlocksOfType(blocks', type) = {}]_vars

\* C26 witness: every id was handed out and the store is empty again, its
\* counters gone.
ResetYieldsInitialWitness ==
  /\ ret = "undefined"
  /\ blockIdCounter = MaxIds
  /\ blocks = << >>
  /\ configs = << >>
  /\ blockCounts = << >>
  /\ editingBlockId = NoId

\* C25: getBlocksByType(type) returns exactly the blocks of the store whose
\* type is type, each once, in ascending order of their order field.
ListsTypeInOrder ==
  \A type \in Types :
    LET result == getBlocksByType(type)
    IN  /\ {result[k] : k \in 1 .. Len(result)} = {i \in DOMAIN blocks : blocks[i].type = type}
        /\ \A k, l \in 1 .. Len(result) : k # l => result[k] # result[l]
        /\ \A k \in 1 .. (Len(result) - 1) :
             blocks[result[k]].order <= blocks[result[k + 1]].order

\* C25 witness: after a move the text blocks are listed third before first, the
\* image block between them in the store is left out.
ListsTypeInOrderWitness ==
  /\ DOMAIN blocks = {1, 2, 3}
  /\ blocks[2].type = "image"
  /\ getBlocksByType("text") = <<3, 1>>
  /\ getBlocksByType("image") = <<2>>

\* C27: no operation returns an existing block to state empty; a block's state
\* changes only to dirty, by updateBlockData, or to clean, by a successful
\* saveBlock; and a block appears in state empty only when addBlock creates it.
NeverBackToEmpty ==
  [][/\ \A id \in DOMAIN blocks \cap DOMAIN blocks' :
          /\ blocks'[id].state = "empty" => blocks[id].state = "empty"
          /\ blocks'[id].state # blocks[id].state =>
               \/ /\ blocks'[id].state = "dirty"
                  /\ \E data \in UpdateData : updateBlockData(id, data)
               \/ /\ blocks'[id].state = "clean"
                  /\ SaveSucceeds(id)
     /\ \A id \in DOMAIN blocks' \ DOMAIN blocks :
          blocks'[id].state = "empty" => (id = blockIdCounter' /\ ret' = "id")]_vars

\* C27 witness: a block that was saved is dirty again.
NeverBackToEmptyWitness ==
  /\ ret = "undefined"
  /\ \E id \in DOMAIN blocks :
       /\ blocks[id].state = "dirty"
       /\ blocks[id].savedAt # NoTime
       /\ blocks[id].data = "d0"

\* C28: createdAt <= updatedAt for every block and updatedAt never decreases;
\* savedAt is set only by a successful saveBlock; every clean block has a
\* savedAt and every empty block has none.
TimestampsOrdered ==
  [][/\ \A id \in DOMAIN blocks' :
          /\ blocks'[id].createdAt <= blocks'[id].updatedAt
          /\ blocks'[id].state = "clean" => blocks'[id].savedAt # NoTime
          /\ blocks'[id].state = "empty" => blocks'[id].savedAt = NoTime
          /\ blocks'[id].savedAt # (IF id \in DOMAIN blocks THEN blocks[id].savedAt ELSE NoTime)
               => SaveSucceeds(id)
     /\ \A id \in DOMAIN blocks \cap DOMAIN blocks' :
          blocks[id].updatedAt <= blocks'[id].updatedAt]_vars

\* C28 witness: a block created at 0 was saved and then updated after the clock
\* moved: createdAt = savedAt = 0 and updatedAt = 1; another block is unsaved.
TimestampsOrderedWitness ==
  /\ \E id \in DOMAIN blocks :
       /\ blocks[id].createdAt = 0
       /\ blocks[id].savedAt = 0
       /\ blocks[id].updatedAt = MaxClock
       /\ blocks[id].state = "dirty"
  /\ \E id \in DOMAIN blocks : blocks[id].state = "empty" /\ blocks[id].savedAt = NoTime

\* C30: when onSave resolves for a block that was updated while the save was
\* suspended, the block keeps the data of that update, and it is not clean
\* with data that onSave was not given.
SaveKeepsLaterEdit ==
  [][\A call \in BagToSet(saves) :
       (call.id \in DOMAIN blocks /\ SaveResume(call)) =>
         /\ blocks'[call.id].data = blocks[call.id].data
         /\ blocks'[call.id].state = "clean" => blocks'[call.id].data = call.block.data]_vars


\* C23: when onCancel is invoked on a block that was saved before, the block
\* afterwards holds and displays the data of its last successful save.
CancelRestoresSaved ==
  [][\A id \in DOMAIN blocks :
       (id \in DOMAIN savedData /\ handleCancel(id)) =>
         /\ blocks'[id].data = savedData[id]
         /\ Displayed(blocks'[id]) = savedData[id]]_vars

\* C29: a block added by the add handler has a timer that eventually fires; when
\* it fires, the block, if still in the store, is the sole editing block
\* (whoever entered edit mode in the meantime leaves it), and if the block is
\* gone the store is left as it is.
AddedBlockGetsEdited ==
  /\ \A id \in 1 .. MaxIds :
       (id \in timers) ~>
         (id \notin timers /\ (id \in DOMAIN blocks => Editing = {id} /\ editingBlockId = id))
  /\ [][\A id \in timers :
          TimerFire(id) =>
            IF id \in DOMAIN blocks
              THEN /\ Editing' = {id}
                   /\ editingBlockId' = id
                   /\ \A other \in DOMAIN blocks \ {id} :
                        blocks'[other] = [blocks[other] EXCEPT !.isEditing = FALSE]
              ELSE UNCHANGED <<blocks, configs, editingBlockId, blockCounts>>]_vars

\* C29 witness: both timers have fired; the second block's timer took edit mode
\* from the first block, which had been edited (it is dirty).
AddedBlockGetsEditedWitness ==
  /\ timers = {}
  /\ blockIdCounter = MaxIds
  /\ DOMAIN blocks = 1 .. MaxIds
  /\ Editing = {MaxIds}
  /\ editingBlockId = MaxIds
  /\ blocks[1].state = "dirty"
  /\ ~blocks[1].isEditing

\* C31: no two blocks ever share an order, saves suspended in onSave included,
\* and the write of a completed save leaves the order of its block as moveBlock
\* set it during the save.
OrdersUniqueWithSaves ==
  [][/\ \A a, b \in DOMAIN blocks' : blocks'[a].order = blocks'[b].order => a = b
     /\ \A call \in BagToSet(saves) :
          (call.id \in DOMAIN blocks /\ SaveResume(call)) =>
            blocks'[call.id].order = blocks[call.id].order]_vars

IndexOf(seq, x) == CHOOSE i \in 1 .. Len(seq) : seq[i] = x

\* a sequence with x taken out
Without(seq, x) == SelectSeq(seq, LAMBDA e : e # x)

\* C33: when a drag moves block M onto block X of the same type, M afterwards
\* sits in getBlocksByType(type) at the index X had before, and the other
\* blocks of the type keep their sequence.
DragTakesTargetIndex ==
  [][\A type \in Types :
       \A M, X \in BlocksOfType(blocks, type) :
         (M # X /\ handleDragEnd(type, M, X)) =>
           LET before == getBlocksByType(type)
               after == SortByOrder(blocks', BlocksOfType(blocks', type))
           IN  /\ IndexOf(after, M) = IndexOf(before, X)
               /\ Without(after, M) = Without(before, M)]_vars

\* C34: moveBlock(id, newOrder) keeps every two blocks other than id in the
\* order they were in, so the list of a type that does not hold id is the same
\* before and after; no block's state, data or isEditing changes, and neither
\* do editingBlockId and the counters.
MoveKeepsOthersInOrder ==
  [][\A id \in DOMAIN blocks, newOrder \in MoveTargets :
       moveBlock(id, newOrder) =>
         /\ \A a, b \in DOMAIN blocks \ {id} :
              (blocks[a].order < blocks[b].order) <=> (blocks'[a].order < blocks'[b].order)
         /\ \A type \in Types :
              id \notin BlocksOfType(blocks, type) =>
                SortByOrder(blocks', BlocksOfType(blocks', type)) = getBlocksByType(type)
         /\ \A a \in DOMAIN blocks :
              /\ blocks'[a].state = blocks[a].state
              /\ blocks'[a].data = blocks[a].data
              /\ blocks'[a].isEditing = blocks[a].isEditing
         /\ UNCHANGED <<editingBlockId, blockCounts>>]_vars

\* C35: when the suspended saveBlock(A) completes, by onSave resolving or
\* rejecting, every block other than A is left exactly as it was, no block
\* other than A appears or disappears, and a block B other than A that holds
\* edit mode still holds it: isEditing is true and editingBlockId is B.
SaveCompletionTouchesOnlyItsBlock ==
  [][\A call \in BagToSet(saves) :
       (SaveResume(call) \/ SaveFail(call)) =>
         /\ DOMAIN blocks \ {call.id} = DOMAIN blocks' \ {call.id}
         /\ \A other \in DOMAIN blocks \ {call.id} : blocks'[other] = blocks[other]
         /\ editingBlockId # call.id => editingBlockId' = editingBlockId
         /\ \A B \in DOMAIN blocks \ {call.id} :
              (blocks[B].isEditing /\ editingBlockId = B) =>
                (blocks'[B].isEditing /\ editingBlockId' = B)]_vars

\* C35 witness: the save of the first block, suspended in onSave, has completed
\* (the block is clean and onSave is configured for its type) while the second
\* block holds edit mode with data pushed into it.
SaveCompletionTouchesOnlyItsBlockWitness ==
  /\ ret = "resolved"
  /\ saves = EmptyBag
  /\ DOMAIN blocks = {1, 2}
  /\ blocks[1].type \in DOMAIN configs
  /\ configs[blocks[1].type].hasOnSave
  /\ blocks[1].state = "clean"
  /\ ~blocks[1].isEditing
  /\ blocks[2].isEditing
  /\ blocks[2].state = "dirty"
  /\ editingBlockId = 2

\* C36: whatever configurations were unregistered and registered before, when
\* the number of blocks of a type present is at or above the maxBlocks of the
\* configuration now registered, canAddBlock is false and addBlock returns null
\* and adds nothing.
LimitSurvivesRemount ==
  [][\A type \in DOMAIN configs :
       (configs[type].maxBlocks # NoLimit /\ NumBlocks(type) >= configs[type].maxBlocks) =>
         /\ ~canAddBlock(type)
         /\ addBlock(type) => (ret' = "null" /\ UNCHANGED <<blocks, blockCounts>>)]_vars

\* C37: with a configuration that has a validator registered once, a clean
\* block holds data the validator accepts, in every reachable state, those
\* reached by updateBlockData during a suspended save included.
CleanDataIsValid ==
  \A id \in DOMAIN blocks :
    (/\ blocks[id].type \in DOMAIN configs
     /\ configs[blocks[id].type].hasValidate
     /\ blocks[id].state = "clean") => Validate(blocks[id].data)

\* C37 witness: under the configuration with a validator, a block created at 0
\* is clean after a save that completed once the clock had moved.
CleanDataIsValidWitness ==
  /\ ret = "resolved"
  /\ \E id \in DOMAIN blocks :
       /\ blocks[id].type \in DOMAIN configs
       /\ configs[blocks[id].type].hasValidate
       /\ configs[blocks[id].type].hasOnSave
       /\ blocks[id].state = "clean"
       /\ blocks[id].createdAt = 0
       /\ blocks[id].savedAt = MaxClock

=============================================================================
